---- MODULE Spec2Model ----
(***************************************************************************)
(* A model of the Vulkava client (src/index.ts): the node pool and its     *)
(* bestNode selection, and the voice-update handling that reconciles the   *)
(* session-id and server-assignment facts of a player and migrates it      *)
(* between regions.                                                        *)
(*                                                                         *)
(* Node (./lib/Node) and Player (./lib/Player) are imported by the source  *)
(* but are not part of it; what the model needs of them (the node health   *)
(* states and their edges, the penalty score, sendVoiceUpdate, moveNode)   *)
(* follows the specification, sections 3, 4.1 and 4.3.                     *)
(***************************************************************************)
EXTENDS Integers, Sequences, FiniteSets, TLC

\* ------------------------------------------------------------------ bounds
NumNodes == 3
MaxPenalty == 1
MaxTicks == 2
MaxGuilds == 2
MaxCalls == 2
MaxSearches == 2
StackLimit == 3

\* --------------------------------------------------------------- constants
\* The selection window of bestNode, in milliseconds.
SortWindow == 30000

\* The clock (Date.now()) when the client is constructed, and the step by
\* which the model lets it advance: three steps make one window.
StartTime == 2 * SortWindow
TickStep == SortWindow \div 3
MaxTime == StartTime + MaxTicks * TickStep

\* Nodes are named by their place in the constructor's node list.
Nodes == 1..NumNodes
NoNode == 0
NodeStates == {"IDLE", "CONNECTING", "CONNECTED", "RECONNECTING", "DISCONNECTED"}
Regions == {"none", "USA", "EU"}
Penalties == 0..MaxPenalty
ClientIds == {"bot"}
None == "none"

\* What the gateway may deliver, and what a player is created with.
Guilds == {"G1"}
UserIds == {"bot", "other"}
SessionIds == {"sidA"}
Tokens == {"tokA"}
Channels == {"c1", "c2"}
\* Endpoints: "us-east" starts with an entry of the 'us' list, "russia" does
\* not (it only contains "us"). A partial packet carries null (None) or "".
Endpoints == {"us-east", "russia"}
PartialEndpoints == {None, ""}
Chars(str) ==
  CASE str = "us-east" -> <<"u", "s", "-", "e", "a", "s", "t">>
    [] str = "russia" -> <<"r", "u", "s", "s", "i", "a">>
    [] OTHER -> <<>>
\* ['us', 'brazil', 'buenos-aires']
UsPrefixes == { <<"u", "s">>,
                <<"b", "r", "a", "z", "i", "l">>,
                <<"b", "u", "e", "n", "o", "s", "-", "a", "i", "r", "e", "s">> }

VARIABLES
  nodes,            \* this.nodes: the pool array, in its current order
  nstate,           \* node.state of each node
  penalty,          \* node.totalPenalties of each node
  region,           \* node.options.region of each node ("none": not set)
  lastNodeSorting,  \* this.lastNodeSorting
  now,              \* Date.now()
  clientId,         \* this.clientId (None until start)
  players,          \* this.players: guild id -> Player (NoPlayer: no entry)
  ret,              \* the outcome of the bestNode call just made
  sel,              \* the last successful selection that is still fresh
  out,              \* the outcome of the handleVoiceUpdate call just made
  ctor,             \* the outcome of new Vulkava(options)
  enabled,          \* the catalog sources that were constructed
  playerLib,        \* what Player.moveNode does with a player that is not READY
  made,             \* how many Player objects were constructed
  pid,              \* guild id -> the Player object registered (0: none)
  got,              \* the Player object the last createPlayer call returned
  cache,            \* this.cache: the entries {q, v}, in the order added
  calls,            \* the search calls in flight, each with its position
  reqs,             \* the loadtracks requests issued since the last start
  searches          \* how many search calls were made

ctorVars == <<ctor, enabled, playerLib>>
registryVars == <<made, pid, got>>
searchVars == <<cache, calls, reqs, searches>>

vars == <<nodes, nstate, penalty, region, lastNodeSorting, now, clientId,
          players, ret, sel, out, ctorVars, registryVars, searchVars>>

\* Player.moveNode is valid for a READY player only and sends the handshake
\* again with the facts the player has. What it does with a player that is not
\* READY is one of two things: it sends all the same ("resend"), or it fails
\* the assertion and leaves the player as it is ("guarded"). The
\* specifications in which no player is ever moved fix one of the two.
PlayerLibs == {"resend", "guarded"}

NoRet == [kind |-> "none", node |-> NoNode]
NoSel == [node |-> NoNode, time |-> 0]
NoEvent == [guild_id |-> None, endpoint |-> None, token |-> None]
NoPlayer == [guildId |-> None, voiceChannelId |-> None, sessionId |-> None,
             event |-> NoEvent, node |-> NoNode, state |-> None]
NoEnv == [op |-> 0, t |-> None, guild_id |-> None, user_id |-> None,
          session_id |-> None, channel_id |-> None, endpoint |-> None,
          token |-> None]
NoOut == [kind |-> "none", env |-> NoEnv, guild |-> None, stored |-> FALSE,
          moved |-> FALSE, err |-> "none", hs |-> <<>>]

\* The catalog sources of options.disabledSources, the slots of the search
\* calls that can be in flight together, and a slot without a call.
Sources == {"APPLE_MUSIC", "DEEZER", "SPOTIFY"}
CallIds == 1..MaxCalls
NoResult == [kind |-> "none", loadType |-> None, by |-> None]
IdleCall == [pc |-> "idle", query |-> None, source |-> None, final |-> None,
             node |-> NoNode, result |-> NoResult]

\* The registration order of the constructor: nodes are pushed one by one.
RegistrationOrder == [i \in 1..NumNodes |-> i]

\* The options of new Vulkava(options): options.nodes is missing, something
\* that is no array, or an array of len node options; options.sendWS is
\* missing, something that is no function, or a function; disabledSources is
\* missing or a list of sources.
NodeLists ==
  {[kind |-> "missing", len |-> 0], [kind |-> "notArray", len |-> 0]}
  \cup {[kind |-> "array", len |-> k] : k \in 0..NumNodes}
NoDisabled == [given |-> FALSE, list |-> {}]
DisabledLists == {NoDisabled, [given |-> TRUE, list |-> {"DEEZER"}]}
NotAnObject == [isObject |-> FALSE, nodes |-> [kind |-> "missing", len |-> 0],
                sendWS |-> "missing", disabled |-> NoDisabled]
OptionSets ==
  {NotAnObject} \cup
  [isObject : {TRUE}, nodes : NodeLists,
   sendWS : {"missing", "notFunction", "function"}, disabled : DisabledLists]
ValidOptions(k) == [isObject |-> TRUE, nodes |-> [kind |-> "array", len |-> k],
                    sendWS |-> "function", disabled |-> NoDisabled]

\* Vulkava.checkOptions(options). disabledSources is missing or an array in
\* every option set above, so the last test of checkOptions has nothing to
\* reject.
CheckOptionsMutAllowsEmpty(o) ==
  IF ~o.isObject THEN "TypeError"
  ELSE IF o.nodes.kind = "missing" THEN "TypeError"
  ELSE IF o.nodes.kind # "array" THEN "TypeError"
  ELSE IF o.sendWS # "function" THEN "TypeError"
  ELSE "ok"

CheckOptions(o) ==
  IF ~o.isObject THEN "TypeError"
  ELSE IF o.nodes.kind = "missing" THEN "TypeError"
  ELSE IF o.nodes.kind # "array" THEN "TypeError"
  ELSE IF o.nodes.len = 0 THEN "TypeError"
  ELSE IF o.sendWS # "function" THEN "TypeError"
  ELSE "ok"

\* The constructor: checkOptions first; then the sources that are not
\* disabled, and one Node per entry of options.nodes, in their order.
Construct(o) ==
  LET ok == CheckOptions(o) = "ok"
  IN [kind |-> CheckOptions(o),
      created |-> IF ok THEN o.nodes.len ELSE 0,
      pool |-> IF ok THEN SubSeq(RegistrationOrder, 1, o.nodes.len) ELSE <<>>,
      enabled |-> IF ok THEN Sources \ o.disabled.list ELSE {},
      options |-> o]

\* What new Vulkava(options) leaves, besides the pool, when the options are
\* valid and disable no source: every source, no player, no search call. The
\* cache is created by start.
InitClient ==
  /\ ctor = Construct(ValidOptions(NumNodes))
  /\ enabled = ctor.enabled
  /\ made = 0
  /\ pid = [g \in Guilds |-> 0]
  /\ got = 0
  /\ cache = <<>>
  /\ calls = [i \in CallIds |-> IdleCall]
  /\ reqs = <<>>
  /\ searches = 0

\* ------------------------------------------------------------------- pool

\* Array.prototype.sort with the comparator a.totalPenalties - b.totalPenalties:
\* ascending by penalty, stable (equal penalties keep the order they had in the
\* array that is sorted).
RECURSIVE Insert(_, _, _)
Insert(x, s, pen) ==
  IF s = <<>> THEN <<x>>
  ELSE IF pen[x] < pen[Head(s)] THEN <<x>> \o s
  ELSE <<Head(s)>> \o Insert(x, Tail(s), pen)

RECURSIVE SortByPenalty(_, _)
SortByPenalty(s, pen) ==
  IF s = <<>> THEN <<>>
  ELSE Insert(s[Len(s)], SortByPenalty(SubSeq(s, 1, Len(s) - 1), pen), pen)

\* The rescan branch of bestNode: sort the array in place, take its first
\* element, and throw unless that element is CONNECTED. lastNodeSorting is not
\* assigned on this branch.
Rescan(ns, st, pen, last) ==
  LET sorted == SortByPenalty(ns, pen)
  IN IF Len(sorted) = 0 \/ st[sorted[1]] # "CONNECTED"
     THEN [kind |-> "NoConnectedNodes", node |-> NoNode, nodes |-> sorted,
           last |-> last, rescanned |-> TRUE]
     ELSE [kind |-> "ok", node |-> sorted[1], nodes |-> sorted, last |-> last,
           rescanned |-> TRUE]

\* The getter bestNode. Inside the window the first array element is returned
\* if it is CONNECTED; otherwise lastNodeSorting is set to 0 and the getter
\* re-enters itself. The re-entry sees lastNodeSorting = 0 and the same clock
\* and array: it takes the rescan branch when the clock is at least one window
\* past 0, and otherwise repeats itself unchanged until the call stack is
\* exhausted (a RangeError).
BestNodeGet(ns, st, pen, last, t) ==
  IF t < last + SortWindow
  THEN IF st[ns[1]] = "CONNECTED"
       THEN [kind |-> "ok", node |-> ns[1], nodes |-> ns, last |-> last,
             rescanned |-> FALSE]
       ELSE IF t < 0 + SortWindow
            THEN [kind |-> "StackOverflow", node |-> NoNode, nodes |-> ns,
                  last |-> 0, rescanned |-> FALSE]
            ELSE Rescan(ns, st, pen, 0)
  ELSE Rescan(ns, st, pen, last)

\* The health-state edges of a node (IDLE is the only initial state).
NodeEdge(a, b) ==
  \/ a = "CONNECTING" /\ b \in {"CONNECTED", "DISCONNECTED"}
  \/ a = "CONNECTED" /\ b = "RECONNECTING"
  \/ a = "RECONNECTING" /\ b \in {"CONNECTED", "DISCONNECTED"}

\* node.connect(): IDLE or DISCONNECTED becomes CONNECTING.
Connect(s) == IF s \in {"IDLE", "DISCONNECTED"} THEN "CONNECTING" ELSE s

\* The selection that is still fresh after the pool or the clock changed: it is
\* dropped once its node is no longer CONNECTED or once it is a window old.
Fresh(s, st, t) ==
  IF s.node # NoNode /\ st[s.node] = "CONNECTED" /\ t < s.time + SortWindow
  THEN s ELSE NoSel

\* ---------------------------------------------------------------- actions

\* new Vulkava(options): the nodes in registration order, all IDLE, the
\* selection timestamp 0. Pool-only behaviours leave the region labels unset.
InitPool ==
  /\ nodes = RegistrationOrder
  /\ nstate = [n \in Nodes |-> "IDLE"]
  /\ penalty \in [Nodes -> Penalties]
  /\ region = [n \in Nodes |-> "none"]
  /\ lastNodeSorting = 0
  /\ now = StartTime
  /\ clientId = None
  /\ players = [g \in Guilds |-> NoPlayer]
  /\ ret = NoRet
  /\ sel = NoSel
  /\ out = NoOut
  /\ InitClient
  /\ playerLib = "resend"

\* The members of the pool array.
InPool(ns, n) == \E i \in 1..Len(ns) : ns[i] = n

\* start(clientId): every node of the pool connects, and the cache is replaced
\* by a new, empty one.
Start ==
  /\ \E c \in ClientIds : clientId' = c
  /\ nstate' = [n \in Nodes |-> IF InPool(nodes, n) THEN Connect(nstate[n])
                                 ELSE nstate[n]]
  /\ cache' = <<>>
  /\ reqs' = <<>>
  /\ ret' = NoRet
  /\ sel' = Fresh(sel, nstate', now)
  /\ out' = NoOut
  /\ UNCHANGED <<nodes, penalty, region, lastNodeSorting, now, players>>
  /\ UNCHANGED <<ctorVars, registryVars, calls, searches>>

\* A node's connection succeeds, drops, or gives up.
NodeEvent ==
  \E n \in Nodes, s \in NodeStates :
    /\ NodeEdge(nstate[n], s)
    /\ nstate' = [nstate EXCEPT ![n] = s]
    /\ ret' = NoRet
    /\ sel' = Fresh(sel, nstate', now)
    /\ out' = NoOut
    /\ UNCHANGED <<nodes, penalty, region, lastNodeSorting, now, clientId, players>>
    /\ UNCHANGED <<ctorVars, registryVars, searchVars>>

\* The same, for a node whose reconnection attempts are never exhausted.
NodeFlap ==
  \E n \in Nodes, s \in NodeStates \ {"DISCONNECTED"} :
    /\ NodeEdge(nstate[n], s)
    /\ nstate' = [nstate EXCEPT ![n] = s]
    /\ ret' = NoRet
    /\ sel' = Fresh(sel, nstate', now)
    /\ out' = NoOut
    /\ UNCHANGED <<nodes, penalty, region, lastNodeSorting, now, clientId, players>>
    /\ UNCHANGED <<ctorVars, registryVars, searchVars>>

\* The same, for a node that connects and then stays connected.
NodeUp ==
  \E n \in Nodes :
    /\ nstate[n] = "CONNECTING"
    /\ NodeEdge(nstate[n], "CONNECTED")
    /\ nstate' = [nstate EXCEPT ![n] = "CONNECTED"]
    /\ ret' = NoRet
    /\ sel' = Fresh(sel, nstate', now)
    /\ out' = NoOut
    /\ UNCHANGED <<nodes, penalty, region, lastNodeSorting, now, clientId, players>>
    /\ UNCHANGED <<ctorVars, registryVars, searchVars>>

\* A node's load changes, and its penalty score with it.
PenaltyChange ==
  \E n \in Nodes, v \in Penalties :
    /\ InPool(nodes, n)
    /\ v # penalty[n]
    /\ penalty' = [penalty EXCEPT ![n] = v]
    /\ ret' = NoRet
    /\ out' = NoOut
    /\ UNCHANGED <<nodes, nstate, region, lastNodeSorting, now, clientId, players, sel>>
    /\ UNCHANGED <<ctorVars, registryVars, searchVars>>

\* Time passes.
Tick ==
  /\ now + TickStep <= MaxTime
  /\ now' = now + TickStep
  /\ ret' = NoRet
  /\ sel' = Fresh(sel, nstate, now')
  /\ out' = NoOut
  /\ UNCHANGED <<nodes, nstate, penalty, region, lastNodeSorting, clientId, players>>
  /\ UNCHANGED <<ctorVars, registryVars, searchVars>>

\* A read of the getter bestNode.
BestNodeCall ==
  LET r == BestNodeGet(nodes, nstate, penalty, lastNodeSorting, now)
  IN /\ nodes' = r.nodes
     /\ lastNodeSorting' = r.last
     /\ ret' = [kind |-> r.kind, node |-> r.node]
     /\ out' = NoOut
     /\ UNCHANGED <<nstate, penalty, region, now, clientId, players>>
     /\ UNCHANGED <<ctorVars, registryVars, searchVars>>

BestNode == BestNodeCall /\ UNCHANGED sel

\* The same read, remembering what a rescan selected and when.
BestNodeTracked ==
  /\ BestNodeCall
  /\ sel' = LET r == BestNodeGet(nodes, nstate, penalty, lastNodeSorting, now)
            IN IF r.kind = "ok" /\ r.rescanned
               THEN [node |-> r.node, time |-> now]
               ELSE sel

\* ------------------------------------------------------------------ voice

\* What one handleVoiceUpdate call did to the player: the player afterwards,
\* the handshakes sent (voiceUpdate payloads, each with the node it went to),
\* the error thrown, whether moveNode was called, whether a fact was stored.
Result(p, hs, err, moved, stored) ==
  [player |-> p, hs |-> hs, err |-> err, moved |-> moved, stored |-> stored]

Ignored(p) == Result(p, <<>>, "none", FALSE, FALSE)

Handshake(p) ==
  [node |-> p.node, guildId |-> p.guildId, sessionId |-> p.sessionId,
   endpoint |-> p.event.endpoint, token |-> p.event.token]

HasBothFacts(p) == p.sessionId # None /\ p.event # NoEvent

\* Player.sendVoiceUpdate: the handshake goes to the player's node; with no
\* node, or a node that is not CONNECTED, the assertion fails instead.
SendVoiceUpdate(p, st) ==
  IF p.node = NoNode \/ st[p.node] # "CONNECTED"
  THEN Result(p, <<>>, "AssertionFailed", FALSE, TRUE)
  ELSE Result([p EXCEPT !.state = "READY"], <<Handshake(p)>>, "none", FALSE, TRUE)

\* READY: both facts present and the handshake sent.
IsReady(p) == p.state = "READY" /\ HasBothFacts(p)

\* Player.moveNode, valid for a READY player: the owning node is replaced and
\* the handshake is sent again, with the facts the player has, to the new
\* node. For a player that is not READY the call does the same or fails the
\* assertion without touching the player, as playerLib says.
MoveNode(p, n, st) ==
  LET q == [p EXCEPT !.node = n]
  IN IF IsReady(p) \/ playerLib = "resend"
     THEN [SendVoiceUpdate(q, st) EXCEPT !.moved = TRUE]
     ELSE Result(p, <<>>, "AssertionFailed", TRUE, TRUE)

\* String.prototype.startsWith, on the characters of the two strings.
StartsWith(str, prefix) ==
  /\ Len(prefix) <= Len(str)
  /\ SubSeq(str, 1, Len(prefix)) = prefix

\* ['us', 'brazil', 'buenos-aires'].some(loc => endpoint.startsWith(loc))
ImpliesUsa(endpoint) == \E loc \in UsPrefixes : StartsWith(Chars(endpoint), loc)

\* this.nodes.filter(node => node.options.region === r && node.state === CONNECTED)
RegionNodes(ns, st, reg, r) ==
  LET Keep(n) == reg[n] = r /\ st[n] = "CONNECTED"
  IN SelectSeq(ns, Keep)

\* !packet.d.endpoint
EndpointMissingMutNullOnly(e) == e.endpoint = None

EndpointMissing(e) == e.endpoint = None \/ e.endpoint = ""

\* if (player.node === null): the state becomes DISCONNECTED and the assertion
\* error is thrown.
NoNodeFailureMutSilent(p) ==
  Result([p EXCEPT !.state = "DISCONNECTED"], <<>>, "none", FALSE, TRUE)

NoNodeFailure(p) ==
  Result([p EXCEPT !.state = "DISCONNECTED"], <<>>, "AssertionFailed", FALSE, TRUE)

\* if (player.voiceState.sessionId) player.sendVoiceUpdate()
SendIfSession(p, st) ==
  IF p.sessionId # None THEN SendVoiceUpdate(p, st)
  ELSE Result(p, <<>>, "none", FALSE, TRUE)

\* player.moveNode(regionNodes[0]); return
Migrate(p, n, st) == MoveNode(p, n, st)

\* The region an endpoint implies: USA for the 'us' list, EU for all others.
ImpliedRegion(endpoint) == IF ImpliesUsa(endpoint) THEN "USA" ELSE "EU"

\* The region part of the VOICE_SERVER_UPDATE branch, for a player with a node.
MigrateOrSendMutNoRegionCheck(p, ns, st, reg) ==
  LET cands == RegionNodes(ns, st, reg, ImpliedRegion(p.event.endpoint))
  IN IF Len(cands) > 0 THEN Migrate(p, cands[1], st)
     ELSE SendIfSession(p, st)

MigrateOrSend(p, ns, st, reg) ==
  LET target == ImpliedRegion(p.event.endpoint)
      cands == IF reg[p.node] # "none" /\ reg[p.node] # target
               THEN RegionNodes(ns, st, reg, target)
               ELSE <<>>
  IN IF Len(cands) > 0 THEN Migrate(p, cands[1], st)
     ELSE SendIfSession(p, st)

\* The VOICE_STATE_UPDATE branch.
VoiceStateUpdate(p, e, cid, st) ==
  IF e.user_id # cid THEN Ignored(p)
  ELSE LET q == [p EXCEPT !.sessionId = e.session_id,
                          !.voiceChannelId =
                             IF e.channel_id # None THEN e.channel_id ELSE @]
       IN IF q.event # NoEvent THEN SendVoiceUpdate(q, st)
          ELSE Result(q, <<>>, "none", FALSE, TRUE)

\* The VOICE_SERVER_UPDATE branch.
VoiceServerUpdate(p, e, ns, st, reg) ==
  IF EndpointMissing(e) THEN Ignored(p)
  ELSE LET q == [p EXCEPT !.event = [guild_id |-> e.guild_id,
                                     endpoint |-> e.endpoint,
                                     token |-> e.token]]
       IN IF q.node = NoNode THEN NoNodeFailure(q)
          ELSE MigrateOrSend(q, ns, st, reg)

\* handleVoiceUpdate for a payload whose guild has a player.
HandleFor(p, e, cid, ns, st, reg) ==
  IF e.t = "VOICE_STATE_UPDATE" THEN VoiceStateUpdate(p, e, cid, st)
  ELSE IF e.t = "VOICE_SERVER_UPDATE" THEN VoiceServerUpdate(p, e, ns, st, reg)
  ELSE Ignored(p)

\* The payloads the gateway delivers.
Envelope(op, t, g, u, s, c, ep, tok) ==
  [op |-> op, t |-> t, guild_id |-> g, user_id |-> u, session_id |-> s,
   channel_id |-> c, endpoint |-> ep, token |-> tok]

StateEnvelopes ==
  { Envelope(0, "VOICE_STATE_UPDATE", g, u, s, c, None, None) :
      g \in Guilds, u \in UserIds, s \in SessionIds, c \in {None, "c1"} }

ServerEnvelopes ==
  { Envelope(0, "VOICE_SERVER_UPDATE", g, None, None, None, ep, tok) :
      g \in Guilds, ep \in Endpoints \cup PartialEndpoints, tok \in Tokens }

OtherEnvelopes ==
  { Envelope(1, "VOICE_STATE_UPDATE", "G1", "bot", "sidA", None, None, None),
    Envelope(0, "VOICE_STATE_UPDATE", None, "bot", "sidA", None, None, None),
    Envelope(0, "GUILD_CREATE", "G1", None, None, None, None, None) }

Envelopes == StateEnvelopes \cup ServerEnvelopes \cup OtherEnvelopes

\* new Vulkava(options) with any region labels; the penalties stay 0.
InitVoice ==
  /\ nodes = RegistrationOrder
  /\ nstate = [n \in Nodes |-> "IDLE"]
  /\ penalty = [n \in Nodes |-> 0]
  /\ region \in [Nodes -> Regions]
  /\ lastNodeSorting = 0
  /\ now = StartTime
  /\ clientId = None
  /\ players = [g \in Guilds |-> NoPlayer]
  /\ ret = NoRet
  /\ sel = NoSel
  /\ out = NoOut
  /\ InitClient
  /\ playerLib \in PlayerLibs

\* createPlayer(options): the player of the guild is created unless it exists.
\* A new player has no node and no fact.
NewPlayer(g, c) ==
  [guildId |-> g, voiceChannelId |-> c, sessionId |-> None, event |-> NoEvent,
   node |-> NoNode, state |-> "AWAITING_FACTS"]

\* this.players.get(options.guildId)
GetPlayerMutMiss(ps, g) == NoPlayer

GetPlayer(ps, g) == ps[g]

\* createPlayer(options) for guild g and voice channel c. A Player object is
\* named by its place in the order of construction.
CreatePlayerCall(g, c) ==
  /\ IF GetPlayer(players, g) # NoPlayer
     THEN /\ got' = pid[g]
          /\ UNCHANGED <<players, made, pid>>
     ELSE /\ made' = made + 1
          /\ players' = [players EXCEPT ![g] = NewPlayer(g, c)]
          /\ pid' = [pid EXCEPT ![g] = made + 1]
          /\ got' = made + 1
  /\ ret' = NoRet
  /\ out' = NoOut
  /\ UNCHANGED <<nodes, nstate, penalty, region, lastNodeSorting, now, clientId, sel>>
  /\ UNCHANGED <<ctorVars, searchVars>>

CreatePlayer == \E g \in Guilds : CreatePlayerCall(g, "c1")

\* createPlayer for any guild of the registry's domain and any voice channel.
CreatePlayerAny ==
  \E g \in DOMAIN players, c \in Channels : CreatePlayerCall(g, c)

\* Player.connect: a player without a node is given one of the pool.
AssignNode ==
  \E g \in Guilds, n \in Nodes :
    /\ InPool(nodes, n)
    /\ players[g] # NoPlayer
    /\ players[g].node = NoNode
    /\ players' = [players EXCEPT ![g].node = n]
    /\ ret' = NoRet
    /\ out' = NoOut
    /\ UNCHANGED <<nodes, nstate, penalty, region, lastNodeSorting, now, clientId, sel>>
    /\ UNCHANGED <<ctorVars, registryVars, searchVars>>

\* What a delivery was: a fact that was stored ("state", "server"), a partial
\* server update ("partial"), or a payload the handler returns on ("ignored").
DeliveryKind(e, handled, stored) ==
  IF ~handled THEN "ignored"
  ELSE IF e.t = "VOICE_SERVER_UPDATE" THEN (IF stored THEN "server" ELSE "partial")
  ELSE IF e.t = "VOICE_STATE_UPDATE" /\ stored THEN "state"
  ELSE "ignored"

\* handleVoiceUpdate(payload). The outcome keeps the payload when it was a fact
\* that was stored.
Deliver(e) ==
  LET handled == e.op = 0 /\ e.guild_id # None /\ players[e.guild_id] # NoPlayer
      r == IF handled
           THEN HandleFor(players[e.guild_id], e, clientId, nodes, nstate, region)
           ELSE Ignored(NoPlayer)
  IN /\ players' = IF handled THEN [players EXCEPT ![e.guild_id] = r.player]
                   ELSE players
     /\ out' = [kind |-> DeliveryKind(e, handled, r.stored),
                env |-> IF r.stored THEN e ELSE NoEnv,
                guild |-> IF handled THEN e.guild_id ELSE None,
                stored |-> r.stored, moved |-> r.moved, err |-> r.err,
                hs |-> r.hs]
     /\ ret' = NoRet
     /\ UNCHANGED <<nodes, nstate, penalty, region, lastNodeSorting, now, clientId, sel>>
     /\ UNCHANGED <<ctorVars, registryVars, searchVars>>

HandleVoiceUpdate == \E e \in Envelopes : Deliver(e)

NextVoice == Start \/ NodeFlap \/ CreatePlayer \/ AssignNode \/ HandleVoiceUpdate

SpecVoice == InitVoice /\ [][NextVoice]_vars

\* A pool of one EU node, registered first, and two USA nodes, with any
\* penalties; the penalties change and bestNode is read while players are
\* served.
MigrateLayout == [n \in Nodes |-> IF n = 1 THEN "EU" ELSE "USA"]

InitMigrate ==
  /\ nodes = RegistrationOrder
  /\ nstate = [n \in Nodes |-> "IDLE"]
  /\ penalty \in [Nodes -> Penalties]
  /\ region = MigrateLayout
  /\ lastNodeSorting = 0
  /\ now = StartTime
  /\ clientId = None
  /\ players = [g \in Guilds |-> NoPlayer]
  /\ ret = NoRet
  /\ sel = NoSel
  /\ out = NoOut
  /\ InitClient
  /\ playerLib \in PlayerLibs

NextMigrate ==
  \/ Start \/ NodeUp \/ PenaltyChange \/ BestNode
  \/ CreatePlayer \/ AssignNode \/ HandleVoiceUpdate

SpecMigrate == InitMigrate /\ [][NextMigrate]_vars

\* ----------------------------------------------------------------- search

\* Character classes of the three URL patterns.
Lower == {"a", "b", "c", "d", "e", "f", "g", "h", "i", "j", "k", "l", "m",
          "n", "o", "p", "q", "r", "s", "t", "u", "v", "w", "x", "y", "z"}
Upper == {"A", "B", "C", "D", "E", "F", "G", "H", "I", "J", "K", "L", "M",
          "N", "O", "P", "Q", "R", "S", "T", "U", "V", "W", "X", "Y", "Z"}
Digit == {"0", "1", "2", "3", "4", "5", "6", "7", "8", "9"}
AlNum == Lower \cup Upper \cup Digit
WordChar == AlNum \cup {"_"}

\* String helpers: startsWith, the rest after k characters, the rest after an
\* optional prefix, the character at a place ("" past the end), and the length
\* of the longest run of leading characters inside (outside) a class.
HasPrefix(str, pre) == Len(pre) <= Len(str) /\ SubSeq(str, 1, Len(pre)) = pre
Drop(str, k) == SubSeq(str, k + 1, Len(str))
DropOpt(str, pre) == IF HasPrefix(str, pre) THEN Drop(str, Len(pre)) ELSE str
At(str, i) == IF 1 <= i /\ i <= Len(str) THEN SubSeq(str, i, i) ELSE ""
RECURSIVE Run(_, _)
Run(str, C) ==
  IF Len(str) > 0 /\ At(str, 1) \in C THEN 1 + Run(Drop(str, 1), C) ELSE 0
RECURSIVE RunNot(_, _)
RunNot(str, C) ==
  IF Len(str) > 0 /\ At(str, 1) \notin C THEN 1 + RunNot(Drop(str, 1), C) ELSE 0

\* (?:https?:\/\/|)? at the start of a pattern.
DropScheme(str) ==
  IF HasPrefix(str, "https://") THEN Drop(str, Len("https://"))
  ELSE IF HasPrefix(str, "http://") THEN Drop(str, Len("http://"))
  ELSE str

\* The first alternative of a list that the string starts with, followed by
\* one of the separators; None when there is none.
RECURSIVE FirstKind(_, _, _)
FirstKind(str, kinds, seps) ==
  IF kinds = <<>> THEN None
  ELSE IF HasPrefix(str, Head(kinds)) /\ At(str, Len(Head(kinds)) + 1) \in seps
       THEN Head(kinds)
       ELSE FirstKind(str, Tail(kinds), seps)

NoMatch == [ok |-> FALSE, kind |-> None, track |-> FALSE]

\* query.match(Vulkava.APPLE_MUSIC_REGEX): the kind (group 2) and whether the
\* ?i= track parameter (group 4) is there.
AppleMatch(q) ==
  LET host == DropOpt(DropScheme(q), "music.")
      store == Drop(host, Len("apple.com/"))
      rest == Drop(store, Len("us/"))
      kind == FirstKind(rest, <<"album", "playlist", "artist", "music-video">>, {"/"})
      name == Drop(rest, Len(kind) + 1)
      id == Drop(name, RunNot(name, {"/"}) + 1)
      tail == Drop(id, RunNot(id, {"/", "?"}))
  IN IF /\ HasPrefix(host, "apple.com/")
        /\ At(store, 1) \in Lower /\ At(store, 2) \in Lower /\ At(store, 3) = "/"
        /\ kind # None
        /\ RunNot(name, {"/"}) >= 1 /\ At(name, RunNot(name, {"/"}) + 1) = "/"
        /\ RunNot(id, {"/", "?"}) >= 1
     THEN [ok |-> TRUE, kind |-> kind,
           track |-> HasPrefix(tail, "?i=") /\ Run(Drop(tail, Len("?i=")), Digit) >= 1]
     ELSE NoMatch

\* query.match(Vulkava.DEEZER_REGEX)
DeezerMatch(q) ==
  LET host == DropOpt(DropScheme(q), "www.")
      path == Drop(host, Len("deezer.com/"))
      rest == IF At(path, 1) \in WordChar /\ At(path, 2) \in WordChar /\ At(path, 3) = "/"
              THEN Drop(path, Len("br/")) ELSE path
      kind == FirstKind(rest, <<"track", "album", "playlist">>, {"/"})
  IN IF /\ HasPrefix(host, "deezer.com/")
        /\ kind # None
        /\ Run(Drop(rest, Len(kind) + 1), Digit) >= 1
     THEN [ok |-> TRUE, kind |-> kind, track |-> FALSE]
     ELSE NoMatch

\* The line terminators that the pattern's '.' does not match (the pattern has
\* no s flag). U+2028 and U+2029 are line terminators too; the strings of this
\* module are ASCII.
LineTerminators == {"\n", "\r"}

\* query.match(Vulkava.SPOTIFY_REGEX): the pattern ends in .*$ without the m
\* flag, so everything after the id, up to the end of the string, has to be
\* free of line terminators.
SpotifyMatch(q) ==
  LET web == Drop(q, Len("https://open.spotify.com/"))
      user == Drop(web, Len("user/"))
      path == IF HasPrefix(web, "user/") /\ Run(user, AlNum) >= 1
                 /\ At(user, Run(user, AlNum) + 1) = "/"
              THEN Drop(user, Run(user, AlNum) + 1) ELSE web
      rest == IF HasPrefix(q, "https://open.spotify.com/") THEN path
              ELSE Drop(q, Len("spotify:"))
      kind == FirstKind(rest, <<"album", "playlist", "track">>, {"/", ":"})
  IN IF /\ HasPrefix(q, "https://open.spotify.com/") \/ HasPrefix(q, "spotify:")
        /\ kind # None
        /\ Run(Drop(rest, Len(kind) + 1), AlNum) >= 1
        /\ RunNot(Drop(rest, Len(kind) + 1), LineTerminators)
             = Len(Drop(rest, Len(kind) + 1))
     THEN [ok |-> TRUE, kind |-> kind, track |-> FALSE]
     ELSE NoMatch

\* A catalog loader's answer: null (found is FALSE), or the result it builds
\* once the collaborator's lookup has answered.
Null == [found |-> FALSE, loadType |-> None]
Found(lt) == [found |-> TRUE, loadType |-> lt]

\* loadFromAppleMusic(query)
LoadFromAppleMusic(q, en) ==
  LET m == AppleMatch(q)
  IN IF "APPLE_MUSIC" \notin en THEN Null
     ELSE IF ~m.ok THEN Null
     ELSE IF m.kind = "music-video" THEN Found("TRACK_LOADED")
     ELSE IF m.kind = "album"
          THEN (IF m.track THEN Found("TRACK_LOADED") ELSE Found("PLAYLIST_LOADED"))
     ELSE IF m.kind \in {"playlist", "artist"} THEN Found("PLAYLIST_LOADED")
     ELSE Null

\* loadFromDeezer(query)
LoadFromDeezer(q, en) ==
  LET m == DeezerMatch(q)
  IN IF "DEEZER" \notin en THEN Null
     ELSE IF ~m.ok THEN Null
     ELSE IF m.kind = "track" THEN Found("TRACK_LOADED")
     ELSE IF m.kind \in {"album", "playlist"} THEN Found("PLAYLIST_LOADED")
     ELSE Null

\* loadFromSpotify(query)
LoadFromSpotify(q, en) ==
  LET m == SpotifyMatch(q)
  IN IF "SPOTIFY" \notin en THEN Null
     ELSE IF ~m.ok THEN Null
     ELSE IF m.kind = "track" THEN Found("TRACK_LOADED")
     ELSE IF m.kind \in {"album", "playlist", "artist"} THEN Found("PLAYLIST_LOADED")
     ELSE Null

\* The function-valued properties that the sourceMap object literal inherits
\* from Object.prototype, other than constructor.
InheritedMethods == {"toString", "toLocaleString", "valueOf", "hasOwnProperty",
                     "isPrototypeOf", "propertyIsEnumerable",
                     "__defineGetter__", "__defineSetter__",
                     "__lookupGetter__", "__lookupSetter__"}

\* sourceMap[source] || 'ytsearch:', as the template literal writes it: the
\* five own keys give their prefix, an inherited name gives the text of the
\* inherited (truthy) value, and every other name gives 'ytsearch:'.
SourcePrefix(source) ==
  CASE source = "youtube" -> "ytsearch:"
    [] source = "youtubemusic" -> "ytmsearch:"
    [] source = "soundcloud" -> "scsearch:"
    [] source = "odysee" -> "odsearch:"
    [] source = "yandex" -> "ymsearch:"
    [] source = "constructor" -> "function Object() { [native code] }"
    [] source = "__proto__" -> "[object Object]"
    [] source \in InheritedMethods -> "function " \o source \o "() { [native code] }"
    [] OTHER -> "ytsearch:"

\* The query that is looked up and requested: prefixed unless it is a URL.
FinalQuery(q, source) ==
  IF ~HasPrefix(q, "https://") /\ ~HasPrefix(q, "http://")
  THEN SourcePrefix(source) \o q
  ELSE q

\* The loadType values a node answers loadtracks with, and a cache value.
LoadTypes == {"TRACK_LOADED", "PLAYLIST_LOADED", "SEARCH_RESULT", "NO_MATCHES",
              "LOAD_FAILED"}
Value(lt) == [loadType |-> lt]
NoValue == [loadType |-> None]

\* The scan of the cache: with an empty cache nothing is found; otherwise every
\* entry is visited and the value of the last one whose q equals the query is
\* kept.
CacheLookup(c, fq) ==
  LET hits == {k \in 1..Len(c) : c[k].q = fq}
  IN IF Len(c) = 0 \/ hits = {} THEN NoValue
     ELSE c[CHOOSE k \in hits : \A j \in hits : j <= k].v

\* How a search call ends: with a result, or with the error it raises.
Returned(lt, by) == [kind |-> "ok", loadType |-> lt, by |-> by]
Raised(err) == [kind |-> "error", loadType |-> None, by |-> err]

\* The last lines of search: LOAD_FAILED and NO_MATCHES are returned as they
\* are; otherwise the tracks are wrapped and the rest of the response,
\* its loadType included, is copied.
Transform(v, by) ==
  IF v.loadType = "LOAD_FAILED" \/ v.loadType = "NO_MATCHES"
  THEN Returned(v.loadType, by)
  ELSE Returned(v.loadType, by)

Done(c, result) == [c EXCEPT !.pc = "done", !.result = result]

\* The inputs of search.
Queries == {"lofi", "https://example.com/a.mp3",
            "https://music.apple.com/us/album/x/1?i=2",
            "deezer.com/playlist/7", "spotify:track:abc"}
SearchSources == {"youtube", "soundcloud"}

SearchFrame ==
  /\ out' = NoOut
  /\ UNCHANGED <<nstate, penalty, region, now, clientId, players, sel>>
  /\ UNCHANGED <<ctorVars, registryVars>>

\* search(query, source) up to its first await: bestNode is read, and the
\* Apple Music loader is entered.
SearchBegin(i) ==
  \E q \in Queries, source \in SearchSources :
    LET r == BestNodeGet(nodes, nstate, penalty, lastNodeSorting, now)
        c == [pc |-> "apple", query |-> q, source |-> source, final |-> None,
              node |-> r.node, result |-> NoResult]
    IN /\ calls[i].pc \in {"idle", "done"}
       /\ searches < MaxSearches
       /\ searches' = searches + 1
       /\ nodes' = r.nodes
       /\ lastNodeSorting' = r.last
       /\ ret' = [kind |-> r.kind, node |-> r.node]
       /\ calls' = [calls EXCEPT ![i] = IF r.kind = "ok" THEN c
                                         ELSE Done(c, Raised(r.kind))]
       /\ UNCHANGED <<cache, reqs>>
       /\ SearchFrame

\* A loader's promise settles. A loader that found its pattern ends the call,
\* with its result or with the failure of its lookup; after null the next
\* loader is entered.
LoaderSettles(i, answer, source, nextpc) ==
  /\ IF answer.found
     THEN \E ok \in BOOLEAN :
            calls' = [calls EXCEPT ![i] =
                        Done(@, IF ok THEN Returned(answer.loadType, source)
                                ELSE Raised("CatalogError"))]
     ELSE calls' = [calls EXCEPT ![i].pc = nextpc]
  /\ ret' = NoRet
  /\ UNCHANGED <<nodes, lastNodeSorting, cache, reqs, searches>>
  /\ SearchFrame

AppleDone(i) ==
  /\ calls[i].pc = "apple"
  /\ LoaderSettles(i, LoadFromAppleMusic(calls[i].query, enabled), "APPLE_MUSIC", "deezer")

DeezerDone(i) ==
  /\ calls[i].pc = "deezer"
  /\ LoaderSettles(i, LoadFromDeezer(calls[i].query, enabled), "DEEZER", "spotify")

\* node.request('GET', 'loadtracks?identifier=...'): a node that is not
\* CONNECTED fails the request without sending it.
Request(c, fq) ==
  IF nstate[calls[c].node] # "CONNECTED"
  THEN /\ calls' = [calls EXCEPT ![c] =
                      Done([@ EXCEPT !.final = fq], Raised("NodeUnavailable"))]
       /\ UNCHANGED reqs
  ELSE /\ reqs' = Append(reqs, fq)
       /\ calls' = [calls EXCEPT ![c] = [@ EXCEPT !.pc = "load", !.final = fq]]

\* The Spotify loader settles; after null the query gets its prefix, the cache
\* is scanned, and on a miss the node is asked. A cache that start has not yet
\* created cannot be scanned.
SpotifyDone(i) ==
  LET c == calls[i]
      answer == LoadFromSpotify(c.query, enabled)
      fq == FinalQuery(c.query, c.source)
      hit == CacheLookup(cache, fq)
  IN /\ c.pc = "spotify"
     /\ IF answer.found
        THEN LoaderSettles(i, answer, "SPOTIFY", "done")
        ELSE /\ IF clientId = None
                THEN /\ calls' = [calls EXCEPT ![i] =
                                    Done([@ EXCEPT !.final = fq], Raised("TypeError"))]
                     /\ UNCHANGED reqs
                ELSE IF hit # NoValue
                THEN /\ calls' = [calls EXCEPT ![i] =
                                    Done([@ EXCEPT !.final = fq], Transform(hit, "cache"))]
                     /\ UNCHANGED reqs
                ELSE Request(i, fq)
             /\ ret' = NoRet
             /\ UNCHANGED <<nodes, lastNodeSorting, cache, searches>>
             /\ SearchFrame

\* The node's answer arrives: it is added to the cache and returned; a failed
\* request raises.
LoadDone(i) ==
  /\ calls[i].pc = "load"
  /\ \/ \E lt \in LoadTypes :
          /\ cache' = Append(cache, [q |-> calls[i].final, v |-> Value(lt)])
          /\ calls' = [calls EXCEPT ![i] = Done(@, Transform(Value(lt), "node"))]
     \/ /\ calls' = [calls EXCEPT ![i] = Done(@, Raised("RemoteError"))]
        /\ UNCHANGED cache
  /\ ret' = NoRet
  /\ UNCHANGED <<nodes, lastNodeSorting, reqs, searches>>
  /\ SearchFrame

Search ==
  \E i \in CallIds :
    SearchBegin(i) \/ AppleDone(i) \/ DeezerDone(i) \/ SpotifyDone(i) \/ LoadDone(i)

\* new Vulkava(options) with a node list of one node, with or without Deezer
\* disabled.
InitSearch ==
  /\ ctor \in {Construct([ValidOptions(1) EXCEPT !.disabled = d]) :
                 d \in DisabledLists}
  /\ nodes = ctor.pool
  /\ nstate = [n \in Nodes |-> "IDLE"]
  /\ penalty = [n \in Nodes |-> 0]
  /\ region = [n \in Nodes |-> "none"]
  /\ lastNodeSorting = 0
  /\ now = StartTime
  /\ clientId = None
  /\ players = [g \in Guilds |-> NoPlayer]
  /\ ret = NoRet
  /\ sel = NoSel
  /\ out = NoOut
  /\ enabled = ctor.enabled
  /\ playerLib = "resend"
  /\ made = 0
  /\ pid = [g \in Guilds |-> 0]
  /\ got = 0
  /\ cache = <<>>
  /\ calls = [i \in CallIds |-> IdleCall]
  /\ reqs = <<>>
  /\ searches = 0

NextSearch == Start \/ NodeFlap \/ Search

SpecSearch == InitSearch /\ [][NextSearch]_vars

\* The guild ids createPlayer is called with while the registry is observed.
GuildName(i) == IF i = 1 THEN "G1" ELSE IF i = 2 THEN "G2" ELSE "G3"
AllGuilds == {GuildName(i) : i \in 1..MaxGuilds}

InitRegistry ==
  /\ nodes = RegistrationOrder
  /\ nstate = [n \in Nodes |-> "IDLE"]
  /\ penalty = [n \in Nodes |-> 0]
  /\ region = [n \in Nodes |-> "none"]
  /\ lastNodeSorting = 0
  /\ now = StartTime
  /\ clientId = None
  /\ players = [g \in AllGuilds |-> NoPlayer]
  /\ ret = NoRet
  /\ sel = NoSel
  /\ out = NoOut
  /\ ctor = Construct(ValidOptions(NumNodes))
  /\ enabled = ctor.enabled
  /\ playerLib = "resend"
  /\ made = 0
  /\ pid = [g \in AllGuilds |-> 0]
  /\ got = 0
  /\ cache = <<>>
  /\ calls = [i \in CallIds |-> IdleCall]
  /\ reqs = <<>>
  /\ searches = 0

NextRegistry ==
  Start \/ NodeUp \/ CreatePlayerAny \/ AssignNode \/ HandleVoiceUpdate

SpecRegistry == InitRegistry /\ [][NextRegistry]_vars

\* new Vulkava(options) for every option set. A construction that threw
\* leaves no client to operate on. The first node is the loaded one and the
\* only EU node.
InitCtor ==
  /\ ctor \in {Construct(o) : o \in OptionSets}
  /\ nodes = ctor.pool
  /\ nstate = [n \in Nodes |-> "IDLE"]
  /\ penalty = [n \in Nodes |-> IF n = 1 THEN MaxPenalty ELSE 0]
  /\ region = MigrateLayout
  /\ lastNodeSorting = 0
  /\ now = StartTime
  /\ clientId = None
  /\ players = [g \in Guilds |-> NoPlayer]
  /\ ret = NoRet
  /\ sel = NoSel
  /\ out = NoOut
  /\ enabled = ctor.enabled
  /\ playerLib \in PlayerLibs
  /\ made = 0
  /\ pid = [g \in Guilds |-> 0]
  /\ got = 0
  /\ cache = <<>>
  /\ calls = [i \in CallIds |-> IdleCall]
  /\ reqs = <<>>
  /\ searches = 0

Constructed == ctor.kind = "ok"

NextCtor ==
  \/ Constructed /\ Start
  \/ Constructed /\ NodeUp
  \/ Constructed /\ BestNode
  \/ Constructed /\ CreatePlayer
  \/ Constructed /\ AssignNode
  \/ Constructed /\ HandleVoiceUpdate

SpecCtor == InitCtor /\ [][NextCtor]_vars

Next == Start \/ NodeEvent \/ PenaltyChange \/ Tick \/ BestNode

\* The clock of a machine whose time is not set reads the epoch, 0.
EpochTime == 0

\* How often one read of bestNode re-enters the getter: each entry that is
\* inside the window and finds the first array element not CONNECTED sets
\* lastNodeSorting to 0 and enters again, with the same clock and array. The
\* count stops at the number of frames the call stack holds.
RECURSIVE Reentries(_, _, _, _, _)
Reentries(ns, st, last, t, depth) ==
  IF t < last + SortWindow /\ st[ns[1]] # "CONNECTED" /\ depth < StackLimit
  THEN Reentries(ns, st, 0, t, depth + 1)
  ELSE depth

\* new Vulkava(options) on a machine whose clock reads the epoch or the
\* usual time.
InitClock ==
  /\ nodes = RegistrationOrder
  /\ nstate = [n \in Nodes |-> "IDLE"]
  /\ penalty \in [Nodes -> Penalties]
  /\ region = [n \in Nodes |-> "none"]
  /\ lastNodeSorting = 0
  /\ now \in {EpochTime, StartTime}
  /\ clientId = None
  /\ players = [g \in Guilds |-> NoPlayer]
  /\ ret = NoRet
  /\ sel = NoSel
  /\ out = NoOut
  /\ InitClient
  /\ playerLib = "resend"

NextClock == Start \/ NodeEvent \/ PenaltyChange \/ Tick \/ BestNode

SpecClock == InitClock /\ [][NextClock]_vars

Spec == InitPool /\ [][Next]_vars

NextCache == Start \/ NodeEvent \/ PenaltyChange \/ Tick \/ BestNodeTracked

SpecCache == InitPool /\ [][NextCache]_vars

\* ------------------------------------------------------- claims: bestNode

Connected == {n \in Nodes : nstate[n] = "CONNECTED"}

\* The CONNECTED nodes whose penalty no CONNECTED node undercuts.
MinConnected == {n \in Connected : \A m \in Connected : penalty[n] <= penalty[m]}

\* The node of a non-empty set that was registered first.
FirstRegistered(S) == CHOOSE n \in S : \A m \in S : n <= m

\* C1 (as claimed): a bestNode call returns a node that is CONNECTED or raises
\* the no-connected-nodes error, and it raises when no node is CONNECTED.
C1_Original ==
  /\ ret.kind \in {"none", "ok", "NoConnectedNodes"}
  /\ ret.kind = "ok" => ret.node \in Connected
  /\ (ret.kind # "none" /\ Connected = {}) => ret.kind = "NoConnectedNodes"

\* C2 (as claimed): whenever some node is CONNECTED, bestNode returns a
\* CONNECTED node of minimal penalty among the CONNECTED ones; it raises only
\* when none is CONNECTED.
C2_Original ==
  ret.kind # "none" =>
    IF Connected # {}
    THEN ret.kind = "ok" /\ ret.node \in MinConnected
    ELSE ret.kind = "NoConnectedNodes"

\* C3 (as claimed): a rescanning call that returns a node sets the selection
\* timestamp to the time of the call, and a call made while an earlier
\* selection is less than a window old and its node has stayed CONNECTED
\* returns that same node.
C3_Original ==
  [][BestNodeTracked =>
       /\ (ret'.kind = "ok" => lastNodeSorting' = now)
       /\ (sel.node # NoNode => ret'.kind = "ok" /\ ret'.node = sel.node)]_vars

\* C4 (as claimed): when several CONNECTED nodes share the minimal penalty
\* (and no other node undercuts them), bestNode returns the one of them that
\* was registered first.
C4_Original ==
  (/\ ret.kind # "none"
   /\ Cardinality(MinConnected) >= 2
   /\ \A n \in Nodes \ Connected : \A m \in MinConnected : penalty[n] > penalty[m])
  => (ret.kind = "ok" /\ ret.node = FirstRegistered(MinConnected))

\* ---------------------------------------------- claims: handleVoiceUpdate

NodeConnected(p) == p.node # NoNode /\ nstate[p.node] = "CONNECTED"

\* The two facts a guild's player can be given: the session-id fact of this
\* client, and a server assignment with an endpoint.
SessionFacts(g) ==
  {e \in StateEnvelopes : e.guild_id = g /\ e.user_id = clientId}
AssignmentFacts(g) ==
  {e \in ServerEnvelopes : e.guild_id = g /\ e.endpoint \in Endpoints}

\* Two deliveries in a row to a player, the pool staying as it is: the player
\* afterwards and every handshake sent.
DeliverBoth(p, a, b) ==
  LET r1 == HandleFor(p, a, clientId, nodes, nstate, region)
      r2 == HandleFor(r1.player, b, clientId, nodes, nstate, region)
  IN [player |-> r2.player, hs |-> r1.hs \o r2.hs]

\* C5 (as claimed): a handshake is sent only when, as it is sent, both facts are stored and
\* the player's node is CONNECTED, and it carries those facts to that node;
\* and a delivery that stored a fact and leaves both facts stored with a
\* CONNECTED node has sent a handshake.
C5_Original ==
  \A g \in Guilds :
    out.guild = g =>
      LET p == players[g]
      IN /\ out.hs # <<>> =>
              /\ HasBothFacts(p) /\ NodeConnected(p)
              /\ \A i \in 1..Len(out.hs) : out.hs[i] = Handshake(p)
         /\ (out.stored /\ HasBothFacts(p) /\ NodeConnected(p)) => out.hs # <<>>

\* C6 (as claimed): from a player with neither fact, the session-id fact followed by a
\* well-formed assignment, and the same two in the other order, end in the
\* same player state and send the same handshakes.
C6_Original ==
  \A g \in Guilds :
    LET p == players[g]
    IN (p # NoPlayer /\ ~HasBothFacts(p) /\ p.sessionId = None /\ p.event = NoEvent) =>
         \A a \in SessionFacts(g), b \in AssignmentFacts(g) :
           DeliverBoth(p, a, b) = DeliverBoth(p, b, a)

\* C7 (as claimed): once both facts are stored and a handshake was sent,
\* delivering again the payload just processed changes no fact, sends no
\* handshake and migrates nothing.
C7_Original ==
  [][\A e \in Envelopes :
       (/\ Deliver(e)
        /\ out.env = e /\ out.stored
        /\ HasBothFacts(players[e.guild_id])
        /\ players[e.guild_id].state = "READY")
       => (players' = players /\ out'.hs = <<>> /\ ~out'.moved)]_vars

\* C8: a server update without an endpoint changes nothing: the player, its
\* facts, node and state stay as they are, nothing is sent, nothing is moved,
\* nothing is thrown.
C8_PartialIsNoOp ==
  [][\A e \in ServerEnvelopes :
       (Deliver(e) /\ e.endpoint \in PartialEndpoints)
       => /\ players' = players
          /\ out'.hs = <<>> /\ out'.err = "none" /\ ~out'.moved /\ ~out'.stored
          /\ UNCHANGED <<nodes, nstate, penalty, region>>]_vars

\* A player holding only the session id was given a partial server update.
C8_Witness ==
  /\ out.kind = "partial"
  /\ players[out.guild].sessionId # None
  /\ players[out.guild].event = NoEvent

\* C9: a delivery that stored a fact and leaves both facts stored while the
\* player has no node, or a node that is not CONNECTED, threw the assertion
\* error and sent nothing.
C9_AssertionRaised ==
  \A g \in Guilds :
    (out.guild = g /\ out.stored /\ HasBothFacts(players[g]) /\ ~NodeConnected(players[g]))
    => (out.err = "AssertionFailed" /\ out.hs = <<>>)

\* The session-id path threw for a player an earlier failure had already set
\* to DISCONNECTED.
C9_Witness ==
  /\ out.kind = "state" /\ out.err = "AssertionFailed"
  /\ players[out.guild].state = "DISCONNECTED"

\* C10 (as claimed): a migration moves the player to the node of lowest
\* penalty among the CONNECTED nodes of the region it moves to.
C10_Original ==
  (out.kind = "server" /\ out.moved) =>
    LET to == players[out.guild].node
    IN \A m \in Connected : region[m] = region[to] => penalty[to] <= penalty[m]

\* The server assignments that do not call for a migration of the guild's
\* player: the player's node has no region set, or it has the implied region,
\* or no CONNECTED node carries the implied region.
KeepsNode(e, p) ==
  /\ e.endpoint \in Endpoints
  /\ p # NoPlayer /\ p.node # NoNode
  /\ \/ region[p.node] = "none"
     \/ region[p.node] = ImpliedRegion(e.endpoint)
     \/ RegionNodes(nodes, nstate, region, ImpliedRegion(e.endpoint)) = <<>>

\* C11 (as claimed): such an assignment leaves the player's node as it is
\* and, if the session id is stored, sends the handshake to that node in the
\* same call.
C11_Original ==
  [][\A e \in ServerEnvelopes :
       (Deliver(e) /\ KeepsNode(e, players[e.guild_id]))
       => /\ players'[e.guild_id].node = players[e.guild_id].node
          /\ ~out'.moved
          /\ players[e.guild_id].sessionId # None
               => out'.hs = <<Handshake(players'[e.guild_id])>>]_vars

\* C11: such an assignment leaves the player's node as it is and, if the
\* session id is stored, reaches the handshake on that node in the same call:
\* the handshake is sent to it when it is CONNECTED, and the assertion error
\* is thrown when it is not.
C11_KeepsNodeAndSends ==
  [][\A e \in ServerEnvelopes :
       (Deliver(e) /\ KeepsNode(e, players[e.guild_id]))
       => LET p == players[e.guild_id]
              q == players'[e.guild_id]
          IN /\ q.node = p.node
             /\ ~out'.moved
             /\ q.event.endpoint = e.endpoint
             /\ (p.sessionId # None /\ nstate[p.node] = "CONNECTED")
                  => out'.hs = <<Handshake(q)>> /\ out'.err = "none"
             /\ (p.sessionId # None /\ nstate[p.node] # "CONNECTED")
                  => out'.hs = <<>> /\ out'.err = "AssertionFailed"
             /\ p.sessionId = None => out'.hs = <<>> /\ out'.err = "none"]_vars

\* A player on an EU node was assigned a USA endpoint while no USA node was
\* CONNECTED: it stayed on its node and the handshake went there.
C11_Witness ==
  /\ out.kind = "server" /\ ~out.moved /\ Len(out.hs) = 1
  /\ ImpliedRegion(out.env.endpoint) = "USA"
  /\ region[players[out.guild].node] = "EU"
  /\ \E n \in Nodes : region[n] = "USA"
  /\ RegionNodes(nodes, nstate, region, "USA") = <<>>

\* --------------------------------------------------- claims: createPlayer

\* C12: the registry holds exactly the players that were constructed, one
\* object per guild; a createPlayer call leaves its guild registered and
\* returns the registered object; for a guild that has a player it constructs
\* nothing and changes neither the registry nor that player, whatever the
\* channel it is called with; for a guild without one it constructs and
\* registers one new object and touches no other guild; and no step replaces
\* or removes a registered object.
C12_OnePlayerPerGuild ==
  /\ [](/\ \A g \in DOMAIN players : (players[g] # NoPlayer) <=> (pid[g] # 0)
        /\ \A g, h \in DOMAIN players : (pid[g] # 0 /\ pid[g] = pid[h]) => g = h
        /\ made = Cardinality({g \in DOMAIN players : pid[g] # 0}))
  /\ [][/\ \A g \in DOMAIN players : pid[g] # 0 => pid'[g] = pid[g]
        /\ \A g \in DOMAIN players, c \in Channels :
             CreatePlayerCall(g, c) =>
               /\ pid'[g] # 0 /\ got' = pid'[g]
               /\ players'[g].guildId = g
               /\ pid[g] # 0 => (players' = players /\ pid' = pid /\ made' = made)
               /\ pid[g] = 0 => (made' = made + 1 /\ pid'[g] = made')
               /\ \A h \in DOMAIN players \ {g} :
                    players'[h] = players[h] /\ pid'[h] = pid[h]]_vars

\* After a second guild got its player, createPlayer was called again for the
\* first guild, whose player had stored a fact meanwhile, and returned it.
C12_Witness ==
  /\ made = 2 /\ pid["G1"] = 1 /\ pid["G2"] = 2
  /\ got = 1
  /\ players["G1"].sessionId # None

\* --------------------------------------------------------- claims: search

\* The enabled collaborator that owns a query: the first, in the order Apple
\* Music, Deezer, Spotify, whose loader does not answer null (None: no one).
FirstCatalog(q, en) ==
  IF LoadFromAppleMusic(q, en).found THEN "APPLE_MUSIC"
  ELSE IF LoadFromDeezer(q, en).found THEN "DEEZER"
  ELSE IF LoadFromSpotify(q, en).found THEN "SPOTIFY"
  ELSE None

\* The result the owning collaborator builds for a query.
CatalogAnswer(q, en) ==
  IF LoadFromAppleMusic(q, en).found THEN LoadFromAppleMusic(q, en)
  ELSE IF LoadFromDeezer(q, en).found THEN LoadFromDeezer(q, en)
  ELSE LoadFromSpotify(q, en)

\* The ways a lookup that search awaits can fail.
LookupFailures == {"CatalogError", "RemoteError", "NodeUnavailable"}

\* C13 (as claimed): a search for a query that an enabled collaborator owns
\* returns that collaborator's result (unless its lookup failed), and it has
\* not touched the cache or asked a node: no final query was formed.
C13_Original ==
  \A i \in CallIds :
    (/\ calls[i].pc = "done"
     /\ FirstCatalog(calls[i].query, enabled) # None
     /\ calls[i].result.by # "CatalogError")
    => /\ calls[i].result =
            Returned(CatalogAnswer(calls[i].query, enabled).loadType,
                     FirstCatalog(calls[i].query, enabled))
       /\ calls[i].final = None

\* C14 (as claimed): a search for a query that no collaborator owns, made
\* while the cache holds its final query, is not ended before the cache is
\* scanned; the scan is by equality with the final query; a hit returns the
\* cached value, asks no node and adds no entry; a miss asks the node once
\* (unless the node is unavailable), and the answer adds exactly one entry,
\* keyed by the final query, whatever its loadType.
C14_Original ==
  [][\A i \in CallIds :
       /\ (/\ SearchBegin(i)
           /\ FirstCatalog(calls'[i].query, enabled) = None
           /\ CacheLookup(cache, FinalQuery(calls'[i].query, calls'[i].source)) # NoValue)
          => calls'[i].pc # "done"
       /\ (SpotifyDone(i) /\ FirstCatalog(calls[i].query, enabled) = None)
          => LET fq == FinalQuery(calls[i].query, calls[i].source)
                 hit == CacheLookup(cache, fq)
             IN /\ calls'[i].final = fq
                /\ cache' = cache
                /\ hit # NoValue =>
                     /\ calls'[i].result = Returned(hit.loadType, "cache")
                     /\ reqs' = reqs
                /\ hit = NoValue =>
                     \/ reqs' = Append(reqs, fq) /\ calls'[i].pc = "load"
                     \/ reqs' = reqs /\ calls'[i].result.by = "NodeUnavailable"
       /\ (LoadDone(i) /\ calls'[i].result.kind = "ok")
          => /\ cache' = Append(cache, [q |-> calls[i].final,
                                         v |-> Value(calls'[i].result.loadType)])
             /\ reqs' = reqs]_vars

\* C15 (as claimed): a search that a collaborator or the cache answered has
\* selected no node, and a search fails for want of a CONNECTED node only
\* after no collaborator owned its query and the cache was scanned.
C15_Original ==
  \A i \in CallIds :
    calls[i].pc = "done" =>
      /\ calls[i].result.by \in Sources \cup {"cache"} => calls[i].node = NoNode
      /\ calls[i].result.by = "NoConnectedNodes" =>
           /\ FirstCatalog(calls[i].query, enabled) = None
           /\ calls[i].final # None

\* C16 (as claimed): every result search returns carries one of the four
\* loadTypes TRACK_LOADED, PLAYLIST_LOADED, NO_MATCHES, LOAD_FAILED.
C16_Original ==
  \A i \in CallIds :
    (calls[i].pc = "done" /\ calls[i].result.kind = "ok")
    => calls[i].result.loadType \in
         {"TRACK_LOADED", "PLAYLIST_LOADED", "NO_MATCHES", "LOAD_FAILED"}

\* C17 (as claimed): a search whose collaborator lookup or node request
\* failed returns a LOAD_FAILED result instead of raising, and adds nothing
\* to the cache.
C17_Original ==
  [][\A i \in CallIds :
       (/\ calls[i].pc # "done" /\ calls'[i].pc = "done"
        /\ calls'[i].result.by \in LookupFailures)
       => /\ calls'[i].result.kind = "ok"
          /\ calls'[i].result.loadType = "LOAD_FAILED"
          /\ cache' = cache]_vars

\* C20 (as claimed): the cache never holds two entries with the same query
\* string, and no final query is requested from a node twice between two
\* start calls.
C20_Original ==
  /\ \A j, k \in 1..Len(cache) : cache[j].q = cache[k].q => j = k
  /\ \A j, k \in 1..Len(reqs) : reqs[j] = reqs[k] => j = k

\* ---------------------------------------------------- claims: constructor

\* C18: a construction whose node list is missing, no array or empty, or
\* whose sendWS is no function, threw before any node was created, and none
\* ever connects; a construction that succeeded created one node per entry of
\* a non-empty list, and the pool array holds exactly those nodes, each once,
\* whatever was called since.
C18_PoolNonEmptyAndFixed ==
  LET o == ctor.options
  IN /\ (o.nodes.kind # "array" \/ o.nodes.len = 0 \/ o.sendWS # "function")
          => /\ ctor.kind = "TypeError" /\ ctor.created = 0
             /\ nodes = <<>>
             /\ \A n \in Nodes : nstate[n] = "IDLE"
     /\ ctor.kind = "ok"
          => /\ ctor.created = o.nodes.len
             /\ Len(nodes) = o.nodes.len /\ Len(nodes) >= 1
             /\ {nodes[i] : i \in 1..Len(nodes)} = 1..o.nodes.len

\* A pool of three that bestNode has sorted into another order, after start,
\* in which a server assignment has just migrated a player.
C18_Witness ==
  /\ ctor.kind = "ok" /\ Len(nodes) = NumNodes
  /\ nodes # RegistrationOrder
  /\ clientId # None
  /\ out.moved

\* ------------------------------------------------------ claims: migration

\* C19 (as claimed): moveNode is only called for a player that is READY, with
\* both facts stored and the handshake sent, and never for a player whose
\* session id is absent.
C19_Original ==
  [][\A e \in ServerEnvelopes :
       (Deliver(e) /\ out'.moved)
       => /\ players[e.guild_id].sessionId # None
          /\ HasBothFacts(players[e.guild_id])
          /\ players[e.guild_id].state = "READY"]_vars

\* ---------------------------------------------------- claims: termination

\* C21 (as claimed): every read of bestNode ends by returning a node or by
\* raising the no-connected-nodes error, and it re-enters the getter at most
\* once.
C21_Original ==
  [][BestNodeCall =>
       /\ Reentries(nodes, nstate, lastNodeSorting, now, 0) <= 1
       /\ ret'.kind \in {"ok", "NoConnectedNodes"}]_vars

====
